---- MODULE Spec2Model ----
(***************************************************************************)
(* A model of lib/hashing/sha-infinity.js: the iterated digest, the Merkle *)
(* tree with its inclusion proofs and their verification, the salted, the  *)
(* keyed, the composite and the versioned hash, the hash chain and the     *)
(* hashing of directories; and of the fetch handler of src/worker.js.      *)
(*                                                                         *)
(* Values.  A JavaScript string is the sequence of the bytes of its UTF-8  *)
(* encoding, each byte one token ("a", "b", "EF", ...).  A Buffer is the    *)
(* token "Buffer" followed by its raw bytes.  The value undefined is the   *)
(* one-token sequence <<"undefined">>, which is also the text JavaScript   *)
(* gives it when it is concatenated to a string.                           *)
(*                                                                         *)
(* The digest.  crypto's SHA-256 is taken as collision-free: the hex text  *)
(* of the digest of the bytes s is the bracketed group "<" s ">".  Groups  *)
(* nest, the brackets are no input byte, so two byte sequences have the    *)
(* same digest exactly when they are the same bytes, and a concatenation   *)
(* of digests splits in one way only, as one of 64-character texts does.   *)
(***************************************************************************)
EXTENDS Integers, Sequences, FiniteSets, TLC

\* op, arg, ret: the last call of the library, its arguments and what it
\* returned.  prev: the call before it, whose result the caller still holds.
\* SHA_INFINITY_CONFIG: the configuration object of the module, which the
\* module exports.
VARIABLES op, arg, ret, prev, SHA_INFINITY_CONFIG

vars == <<op, arg, ret, prev, SHA_INFINITY_CONFIG>>

(***************************************************************************)
(* Bounds of the model.                                                    *)
(***************************************************************************)
\* SHA_INFINITY_CONFIG.maxDepth is 1000000 in the source; the model runs the
\* same normalisation and the same loop against a ceiling small enough to
\* iterate.
maxDepth == 3
\* The longest item sequence a tree is built from.
MaxItems == 5
\* The longest forged proof handed to verifyMerkleProof.
MaxProof == 1
\* The largest tree a forged proof is tried against.
MaxForgeItems == 3
\* The longest item sequence a hash chain is built from.
MaxChain == 3

\* The largest number of items a chain is extended by.
MaxExtension == 2

\* The largest number of digests handed to compositeHash.
MaxHashes == 3

\* A depth above every finite depth of the model, as Infinity is in the source.
Infinity == (maxDepth + 2) * (maxDepth + 2)

undefined == <<"undefined">>

\* The items argument when the caller passes none (null / undefined); it is
\* compared, never indexed.
null == << <<"null">> >>

(***************************************************************************)
(* JavaScript primitives the source relies on.                             *)
(***************************************************************************)
\* typeof input === 'string'
IsString(input) == ~(Len(input) > 0 /\ input[1] = "Buffer")

\* The two byte values that no UTF-8 sequence contains.
InvalidUtf8 == {"FE", "FF"}

\* Buffer.prototype.toString(): UTF-8 decoding, each invalid byte decoded to
\* U+FFFD, whose own encoding is EF BF BD.  Defined on buffers of ASCII bytes
\* and of bytes of InvalidUtf8.
RECURSIVE Utf8Decode(_)
Utf8Decode(bytes) ==
  IF bytes = <<>> THEN <<>>
  ELSE (IF Head(bytes) \in InvalidUtf8 THEN <<"EF", "BF", "BD">> ELSE <<Head(bytes)>>)
       \o Utf8Decode(Tail(bytes))

toString(input) == Utf8Decode(Tail(input))

\* arr[i], zero-based as in the source: undefined outside the array.
At(arr, i) == IF i >= 0 /\ i < Len(arr) THEN arr[i + 1] ELSE undefined

\* The operand of ||: undefined and the empty string are falsy.
Falsy(v) == v = undefined \/ v = <<>>

\* a % b of JavaScript: the remainder has the sign of a.
JsRem(a, b) == IF a >= 0 THEN a % b ELSE 0 - ((0 - a) % b)

\* Math.floor(a / 2)
FloorHalf(a) == a \div 2

(***************************************************************************)
(* sha256(input): crypto.createHash('sha256').update(input).digest('hex'). *)
(* update() takes the raw bytes of a Buffer and the UTF-8 bytes of a       *)
(* string.                                                                 *)
(***************************************************************************)
sha256(input) ==
  <<"<">> \o (IF IsString(input) THEN input ELSE Tail(input)) \o <<">">>

(***************************************************************************)
(* shaInfinity(input, depth)                                               *)
(***************************************************************************)
\* The loop with the bound taken inclusively (i <= depth): one digest too many.
RECURSIVE shaInfinityLoopInclusive(_, _, _)
shaInfinityLoopInclusive(hash, i, depth) ==
  IF i <= depth THEN shaInfinityLoopInclusive(sha256(hash), i + 1, depth) ELSE hash

RECURSIVE shaInfinityLoop(_, _, _)
shaInfinityLoop(hash, i, depth) ==
  IF i < depth THEN shaInfinityLoop(sha256(hash), i + 1, depth) ELSE hash

\* The normalisation without the test depth < 1.
NormalizeDepthNoFloor(depth) ==
  LET d0 == IF depth = Infinity THEN maxDepth ELSE depth
  IN  IF d0 > maxDepth THEN maxDepth ELSE d0

\* The normalisation without the test depth > maxDepth.
NormalizeDepthNoCeiling(depth) ==
  LET d0 == IF depth = Infinity THEN maxDepth ELSE depth
  IN  IF d0 < 1 THEN 1 ELSE d0

NormalizeDepth(depth) ==
  LET d0 == IF depth = Infinity THEN maxDepth ELSE depth
      d1 == IF d0 < 1 THEN 1 ELSE d0
  IN  IF d1 > maxDepth THEN maxDepth ELSE d1

shaInfinity(input, depth) ==
  LET hash == IF IsString(input) THEN input ELSE toString(input)
  IN  shaInfinityLoop(hash, 0, NormalizeDepth(depth))

(***************************************************************************)
(* merkleTree(items, depth)                                                *)
(***************************************************************************)
\* The pairing pass with an unpaired last node padded by the empty string
\* instead of being duplicated.
RECURSIVE PairLevelPadded(_, _, _)
PairLevelPadded(leaves, i, nextLevel) ==
  IF i < Len(leaves)
  THEN LET left  == At(leaves, i)
           right == IF Falsy(At(leaves, i + 1)) THEN <<>> ELSE At(leaves, i + 1)
       IN  PairLevelPadded(leaves, i + 2, Append(nextLevel, sha256(left \o right)))
  ELSE nextLevel

\* The inner for loop: one pass over a level, pairing from the left.
RECURSIVE PairLevel(_, _, _)
PairLevel(leaves, i, nextLevel) ==
  IF i < Len(leaves)
  THEN LET left  == At(leaves, i)
           right == IF Falsy(At(leaves, i + 1)) THEN left ELSE At(leaves, i + 1)
       IN  PairLevel(leaves, i + 2, Append(nextLevel, sha256(left \o right)))
  ELSE nextLevel

\* The while loop: levels are pushed until one hash is left.
RECURSIVE BuildLevels(_, _)
BuildLevels(leaves, levels) ==
  IF Len(leaves) > 1
  THEN LET nextLevel == PairLevel(leaves, 0, <<>>)
       IN  BuildLevels(nextLevel, Append(levels, nextLevel))
  ELSE levels

\* merkleTree with the early return taken for absent items only, not for an
\* empty array.
merkleTreeNoLengthCheck(items, depth) ==
  IF items = null
  THEN [root |-> sha256(<<>>), leaves |-> <<>>, levels |-> <<>>]
  ELSE LET leaves == [i \in 1..Len(items) |-> shaInfinity(items[i], depth)]
           levels == BuildLevels(leaves, <<leaves>>)
       IN  [root      |-> At(levels[Len(levels)], 0),
            leaves    |-> levels[1],
            levels    |-> levels,
            itemCount |-> Len(items)]

\* merkleTree with every leaf hashed once, whatever the depth.
merkleTreeLeavesOnce(items, depth) ==
  IF items = null \/ Len(items) = 0
  THEN [root |-> sha256(<<>>), leaves |-> <<>>, levels |-> <<>>]
  ELSE LET leaves == [i \in 1..Len(items) |-> shaInfinity(items[i], 1)]
           levels == BuildLevels(leaves, <<leaves>>)
       IN  [root      |-> At(levels[Len(levels)], 0),
            leaves    |-> levels[1],
            levels    |-> levels,
            itemCount |-> Len(items)]

merkleTree(items, depth) ==
  IF items = null \/ Len(items) = 0
  THEN [root |-> sha256(<<>>), leaves |-> <<>>, levels |-> <<>>]
  ELSE LET leaves == [i \in 1..Len(items) |-> shaInfinity(items[i], depth)]
           levels == BuildLevels(leaves, <<leaves>>)
       IN  [root      |-> At(levels[Len(levels)], 0),
            leaves    |-> levels[1],
            levels    |-> levels,
            itemCount |-> Len(items)]

(***************************************************************************)
(* merkleProof(items, index, depth)                                        *)
(***************************************************************************)
\* The proof loop without the bounds test on the sibling: the unpaired node
\* records itself as its right sibling.
RECURSIVE ProofLoopNoSkip(_, _, _, _)
ProofLoopNoSkip(tree, level, idx, proof) ==
  IF level < Len(tree.levels) - 1
  THEN LET levelHashes == At(tree.levels, level)
           isRight     == JsRem(idx, 2) = 1
           siblingIdx  == IF isRight THEN idx - 1 ELSE idx + 1
           pushed      == Append(proof,
                                 [hash     |-> IF siblingIdx < Len(levelHashes)
                                               THEN At(levelHashes, siblingIdx)
                                               ELSE At(levelHashes, idx),
                                  position |-> IF isRight THEN "left" ELSE "right"])
       IN  ProofLoopNoSkip(tree, level + 1, FloorHalf(idx), pushed)
  ELSE proof

\* The for loop over the levels below the top one.
RECURSIVE ProofLoop(_, _, _, _)
ProofLoop(tree, level, idx, proof) ==
  IF level < Len(tree.levels) - 1
  THEN LET levelHashes == At(tree.levels, level)
           isRight     == JsRem(idx, 2) = 1
           siblingIdx  == IF isRight THEN idx - 1 ELSE idx + 1
           pushed      == IF siblingIdx < Len(levelHashes)
                          THEN Append(proof,
                                      [hash     |-> At(levelHashes, siblingIdx),
                                       position |-> IF isRight THEN "left" ELSE "right"])
                          ELSE proof
       IN  ProofLoop(tree, level + 1, FloorHalf(idx), pushed)
  ELSE proof

merkleProof(items, index, depth) ==
  LET tree == merkleTree(items, depth)
  IN  [root  |-> tree.root,
       leaf  |-> At(tree.leaves, index),
       proof |-> ProofLoop(tree, 0, index, <<>>),
       index |-> index]

(***************************************************************************)
(* verifyMerkleProof(leaf, proof, root)                                    *)
(***************************************************************************)
RECURSIVE VerifyLoop(_, _)
VerifyLoop(hash, proof) ==
  IF proof = <<>> THEN hash
  ELSE LET step == Head(proof)
       IN  VerifyLoop(IF step.position = "left"
                      THEN sha256(step.hash \o hash)
                      ELSE sha256(hash \o step.hash),
                      Tail(proof))

\* verifyMerkleProof returning the computed hash instead of its comparison
\* with the root: any non-empty hash is truthy.
verifyMerkleProofNoCompare(leaf, proof, root) == VerifyLoop(leaf, proof) # <<>>

verifyMerkleProof(leaf, proof, root) == VerifyLoop(leaf, proof) = root

(***************************************************************************)
(* hashChain(items, previousHash)                                          *)
(***************************************************************************)
\* previousHash when the caller passes none (the default, null).
noHash == <<"null">>

\* The text 'genesis'.
genesis == <<"g", "e", "n", "e", "s", "i", "s">>

\* previousHash || sha256('genesis'): null, undefined and '' are falsy.
StartHash(previousHash) ==
  IF previousHash = noHash \/ Falsy(previousHash) THEN sha256(genesis) ELSE previousHash

\* The loop with the two operands of the chain digest exchanged.
RECURSIVE ChainLoopSwapped(_, _, _, _)
ChainLoopSwapped(items, k, currentHash, chain) ==
  IF k < Len(items)
  THEN LET item     == At(items, k)
           itemHash == sha256(item)
           nextHash == sha256(itemHash \o currentHash)
       IN  ChainLoopSwapped(items, k + 1, nextHash,
                            Append(chain, [item |-> item, itemHash |-> itemHash,
                                           chainHash |-> nextHash]))
  ELSE [chain |-> chain, currentHash |-> currentHash]

\* The loop that pushes the chain digest but never assigns it to currentHash.
RECURSIVE ChainLoopUnlinked(_, _, _, _)
ChainLoopUnlinked(items, k, currentHash, chain) ==
  IF k < Len(items)
  THEN LET item     == At(items, k)
           itemHash == sha256(item)
           nextHash == sha256(currentHash \o itemHash)
       IN  ChainLoopUnlinked(items, k + 1, currentHash,
                             Append(chain, [item |-> item, itemHash |-> itemHash,
                                            chainHash |-> nextHash]))
  ELSE [chain |-> chain, currentHash |-> currentHash]

\* The loop whose chain digest is the digest of the item hash alone.
RECURSIVE ChainLoopNoPrev(_, _, _, _)
ChainLoopNoPrev(items, k, currentHash, chain) ==
  IF k < Len(items)
  THEN LET item     == At(items, k)
           itemHash == sha256(item)
           nextHash == sha256(itemHash)
       IN  ChainLoopNoPrev(items, k + 1, nextHash,
                           Append(chain, [item |-> item, itemHash |-> itemHash,
                                          chainHash |-> nextHash]))
  ELSE [chain |-> chain, currentHash |-> currentHash]

\* The for loop over the items: the links pushed and the running chain digest.
RECURSIVE ChainLoop(_, _, _, _)
ChainLoop(items, k, currentHash, chain) ==
  IF k < Len(items)
  THEN LET item     == At(items, k)
           itemHash == sha256(item)
           nextHash == sha256(currentHash \o itemHash)
       IN  ChainLoop(items, k + 1, nextHash,
                     Append(chain, [item |-> item, itemHash |-> itemHash,
                                    chainHash |-> nextHash]))
  ELSE [chain |-> chain, currentHash |-> currentHash]

\* hashChain taking finalHash from the last link, which an empty chain lacks.
hashChainFinalFromLast(items, previousHash) ==
  LET done == ChainLoop(items, 0, StartHash(previousHash), <<>>)
  IN  [previousHash |-> previousHash,
       chain        |-> done.chain,
       finalHash    |-> IF done.chain = <<>> THEN undefined
                        ELSE done.chain[Len(done.chain)].chainHash,
       length       |-> Len(done.chain)]

\* hashChain starting from the genesis digest whatever previousHash is.
hashChainAlwaysGenesis(items, previousHash) ==
  LET done == ChainLoop(items, 0, sha256(genesis), <<>>)
  IN  [previousHash |-> previousHash,
       chain        |-> done.chain,
       finalHash    |-> done.currentHash,
       length       |-> Len(done.chain)]

hashChain(items, previousHash) ==
  LET done == ChainLoop(items, 0, StartHash(previousHash), <<>>)
  IN  [previousHash |-> previousHash,
       chain        |-> done.chain,
       finalHash    |-> done.currentHash,
       length       |-> Len(done.chain)]

(***************************************************************************)
(* versionedHash(input, depth) and parseVersionedHash(versionedHashStr).   *)
(* A text is read unit by unit: a unit is one character, or one digest     *)
(* group, which stands for the DigestHexLength lowercase hex characters of *)
(* a digest.                                                               *)
(***************************************************************************)
\* The hex digest of SHA-256 has 64 characters.
DigestHexLength == 64

\* SHA_INFINITY_CONFIG.version
version == <<"1", ".", "0", ".", "0">>

\* 'sha-inf-v'
prefix == <<"s", "h", "a", "-", "i", "n", "f", "-", "v">>

DigitChars == <<"0", "1", "2", "3", "4", "5", "6", "7", "8", "9">>

Digits == {DigitChars[k] : k \in 1..Len(DigitChars)}

HexChars == Digits \cup {"a", "b", "c", "d", "e", "f"}

\* The decimal text of a natural number.
RECURSIVE NatToString(_)
NatToString(n) ==
  IF n < 10 THEN <<DigitChars[n + 1]>>
  ELSE NatToString(n \div 10) \o <<DigitChars[(n % 10) + 1]>>

\* `${depth}`: the text of a number in a template literal.
NumberToString(n) ==
  IF n = Infinity THEN <<"I", "n", "f", "i", "n", "i", "t", "y">>
  ELSE IF n < 0 THEN <<"-">> \o NatToString(0 - n)
  ELSE NatToString(n)

versionedHash(input, depth) ==
  LET hash == shaInfinity(input, depth)
  IN  prefix \o version \o <<"-", "d">> \o NumberToString(depth) \o <<"-">> \o hash

\* The position of the ">" that closes a digest group, scanning from i with
\* `open` groups open.
RECURSIVE CloseIndex(_, _, _)
CloseIndex(s, i, open) ==
  IF i >= Len(s) THEN Len(s)
  ELSE IF s[i] = "<" THEN CloseIndex(s, i + 1, open + 1)
  ELSE IF s[i] = ">" THEN (IF open = 1 THEN i ELSE CloseIndex(s, i + 1, open - 1))
  ELSE CloseIndex(s, i + 1, open)

\* The units of a text, in order.
RECURSIVE Units(_)
Units(s) ==
  IF s = <<>> THEN <<>>
  ELSE IF Head(s) = "<"
       THEN LET e == CloseIndex(s, 2, 1)
            IN  <<SubSeq(s, 1, e)>> \o Units(SubSeq(s, e + 1, Len(s)))
       ELSE <<<<Head(s)>>>> \o Units(Tail(s))

\* The text of a sequence of units.
RECURSIVE Flatten(_)
Flatten(units) == IF units = <<>> THEN <<>> ELSE Head(units) \o Flatten(Tail(units))

\* The character classes of the pattern: [\d.], \d and [a-f0-9].
InClass(unit, class) ==
  IF Len(unit) > 1 THEN class = "hex"
  ELSE CASE class = "version" -> unit[1] \in Digits \cup {"."}
         [] class = "digit"   -> unit[1] \in Digits
         [] class = "hex"     -> unit[1] \in HexChars

\* A greedy class+ from unit i on: the index of the first unit after the run.
RECURSIVE RunEnd(_, _, _)
RunEnd(units, i, class) ==
  IF i <= Len(units) /\ InClass(units[i], class)
  THEN RunEnd(units, i + 1, class)
  ELSE i

\* The unit at position i, or no unit.
UnitAt(units, i) == IF i >= 1 /\ i <= Len(units) THEN units[i] ELSE <<>>

\* parseInt(text, 10) of a text of digits.
RECURSIVE ParseInt(_)
ParseInt(digits) ==
  IF digits = <<>> THEN 0
  ELSE 10 * ParseInt(SubSeq(digits, 1, Len(digits) - 1))
       + (CHOOSE k \in 0..9 : DigitChars[k + 1] = digits[Len(digits)])

\* The match of /^sha-inf-v([\d.]+)-d(\d+)-([a-f0-9]+)$/: no class contains
\* "-", so each group is the greedy run up to the literal that follows it.
Match(str) ==
  LET units == Units(str)
      v0    == Len(prefix) + 1
      v1    == RunEnd(units, v0, "version")
      d0    == v1 + 2
      d1    == RunEnd(units, d0, "digit")
      h0    == d1 + 1
      h1    == RunEnd(units, h0, "hex")
  IN  [ok |-> /\ Len(units) >= Len(prefix)
              /\ Flatten(SubSeq(units, 1, Len(prefix))) = prefix
              /\ v1 > v0
              /\ UnitAt(units, v1) = <<"-">>
              /\ UnitAt(units, v1 + 1) = <<"d">>
              /\ d1 > d0
              /\ UnitAt(units, d1) = <<"-">>
              /\ h1 > h0
              /\ h1 = Len(units) + 1,
       g1 |-> Flatten(SubSeq(units, v0, v1 - 1)),
       g2 |-> Flatten(SubSeq(units, d0, d1 - 1)),
       g3 |-> Flatten(SubSeq(units, h0, h1 - 1))]

parseVersionedHash(versionedHashStr) ==
  LET match == Match(versionedHashStr)
  IN  IF ~match.ok
      THEN [error |-> "Invalid versioned hash format"]
      ELSE [version |-> match.g1,
            depth   |-> ParseInt(match.g2),
            hash    |-> match.g3]

(***************************************************************************)
(* shaInfinitySalted(input, salt, depth)                                   *)
(***************************************************************************)
\* SHA_INFINITY_CONFIG.separator
separator == <<":">>

\* `${value}`: a string as it is, a Buffer through its toString().
TemplateText(value) == IF IsString(value) THEN value ELSE toString(value)

shaInfinitySalted(input, salt, depth) ==
  LET saltedInput == TemplateText(salt) \o separator \o TemplateText(input)
  IN  shaInfinity(saltedInput, depth)

(***************************************************************************)
(* hmacShaInfinity(key, data, depth)                                       *)
(***************************************************************************)
\* crypto.createHmac('sha256', key).update(data).digest('hex'): a digest of
\* the bytes of the key and of the data, different from every plain digest.
hmacSha256(key, data) ==
  <<"<", "hmac">> \o (IF IsString(key) THEN key ELSE Tail(key)) \o <<"|">>
                  \o (IF IsString(data) THEN data ELSE Tail(data)) \o <<">">>

\* The loop test i < depth: true for every i when depth is Infinity.
LoopTest(i, depth) == depth = Infinity \/ i < depth

\* The loop with its counter started at 0: one digest too many.
RECURSIVE hmacLoop(_, _, _)
hmacLoop(hmac, i, depth) ==
  IF i < depth THEN hmacLoop(sha256(hmac), i + 1, depth) ELSE hmac

hmacShaInfinityFromZero(key, data, depth) == hmacLoop(hmacSha256(key, data), 0, depth)

\* The call for a finite depth; with depth Infinity the loop test never
\* fails and the call returns nothing.
hmacShaInfinity(key, data, depth) == hmacLoop(hmacSha256(key, data), 1, depth)

(***************************************************************************)
(* compositeHash(hashes, depth)                                            *)
(***************************************************************************)
\* Array.prototype.join: the elements in order, sep between neighbours, the
\* empty string for an empty array.
RECURSIVE join(_, _)
join(arr, sep) ==
  IF arr = <<>> THEN <<>>
  ELSE IF Len(arr) = 1 THEN arr[1]
  ELSE arr[1] \o sep \o join(Tail(arr), sep)

\* compositeHash with the hashes joined by nothing.
compositeHashNoSeparator(hashes, depth) == shaInfinity(join(hashes, <<>>), depth)

compositeHash(hashes, depth) ==
  LET combined == join(hashes, separator)
  IN  shaInfinity(combined, depth)

(***************************************************************************)
(* The configuration object.  The functions read its properties when they  *)
(* are called; the operators above are the functions under the             *)
(* configuration the module starts with.                                   *)
(***************************************************************************)
\* const SHA_INFINITY_CONFIG = { ... }, the properties the functions read.
InitialConfig == [maxDepth |-> maxDepth, separator |-> separator, version |-> version]

\* shaInfinity under the configuration config.
shaInfinityUnder(config, input, depth) ==
  LET d0   == IF depth = Infinity THEN config.maxDepth ELSE depth
      d1   == IF d0 < 1 THEN 1 ELSE d0
      d2   == IF d1 > config.maxDepth THEN config.maxDepth ELSE d1
      hash == IF IsString(input) THEN input ELSE toString(input)
  IN  shaInfinityLoop(hash, 0, d2)

(***************************************************************************)
(* hashFile(filePath, depth) and hashDirectory(dirPath, depth).  The file  *)
(* system is the input: a file is the Buffer fs.readFile returns, a        *)
(* directory the array of entries fs.readdir returns, in the order the     *)
(* file system lists them.  An entry is a record of its name, its type,    *)
(* and its content (a file) or its own entries (a directory).              *)
(***************************************************************************)
\* File names: U+00E1 (a with acute) as one code point, the same letter as
\* "a" followed by the combining accent U+0301, and "b".
NameComposed   == <<"C3", "A1">>
NameDecomposed == <<"a", "CC", "81">>
NameB          == <<"b">>

\* The place of a name in the collation order localeCompare follows.
\* Canonically equivalent strings have the same place.
CollationRank(name) == IF name = NameB THEN 2 ELSE 1

\* a.localeCompare(b): negative, zero or positive.
localeCompare(a, b) == CollationRank(a) - CollationRank(b)

\* Array.prototype.sort with the comparator of the source.  The sort is
\* stable: entries that compare equal keep the order they came in.
RECURSIVE sort(_)
sort(entries) ==
  IF entries = <<>> THEN <<>>
  ELSE LET n      == Len(entries)
           e      == entries[n]
           sorted == sort(SubSeq(entries, 1, n - 1))
           p      == Cardinality({k \in 1..(n - 1) :
                                    localeCompare(sorted[k].name, e.name) <= 0})
       IN  SubSeq(sorted, 1, p) \o <<e>> \o SubSeq(sorted, p + 1, n - 1)

\* The content has been read; hashFile returns its iterated digest.
hashFile(content, depth) == shaInfinity(content, depth)

RECURSIVE hashDirectory(_, _)
hashDirectory(entries, depth) ==
  LET sorted == sort(entries)
      hashes ==
        [k \in 1..Len(sorted) |->
           IF sorted[k].type = "directory"
           THEN [name |-> sorted[k].name, type |-> "directory",
                 hash |-> hashDirectory(sorted[k].entries, depth).root]
           ELSE [name |-> sorted[k].name, type |-> "file",
                 hash |-> hashFile(sorted[k].content, depth)]]
      tree == merkleTree([k \in 1..Len(hashes) |-> hashes[k].hash], 1)
  IN  [root |-> tree.root, files |-> hashes, itemCount |-> Len(hashes)]

(***************************************************************************)
(* src/worker.js: the fetch handler of the worker.  A pathname is the      *)
(* sequence of its segments and slashes; a response is a record of its     *)
(* status, its headers (a function from header names to values) and what   *)
(* its body tells.                                                         *)
(***************************************************************************)
securityHeaders ==
  ("X-Content-Type-Options" :> "nosniff")
    @@ ("X-Frame-Options" :> "DENY")
    @@ ("X-XSS-Protection" :> "1; mode=block")
    @@ ("Referrer-Policy" :> "strict-origin-when-cross-origin")
    @@ ("Permissions-Policy" :> "camera=(), microphone=(), geolocation=()")
    @@ ("Content-Security-Policy" :>
          "default-src 'self'; style-src 'self' 'unsafe-inline'; script-src 'self' 'unsafe-inline'")

\* new Response(body, { status, headers }); the status is 200 by default.
Response(body, status, headers) == [body |-> body, status |-> status, headers |-> headers]

\* { ...first, ...second }: a key of both takes the value of second.
Spread(first, second) == second @@ first

\* str.startsWith(head)
startsWith(str, head) ==
  Len(str) >= Len(head) /\ SubSeq(str, 1, Len(head)) = head

\* url.pathname.replace('/api', '') on a pathname that starts with '/api/'.
RemoveApi(pathname) == SubSeq(pathname, 3, Len(pathname))

handleAPI(environment, pathname) ==
  LET path == RemoveApi(pathname)
  IN  IF path = <<"/", "version">> \/ path = <<"/", "v1", "/", "version">>
      THEN Response([version     |-> "1.0.0",
                     platform    |-> "cloudflare-workers",
                     environment |-> IF environment = "" THEN "production" ELSE environment],
                    200, "Content-Type" :> "application/json")
      ELSE Response([error |-> "Not found"], 404, "Content-Type" :> "application/json")

fetch(method, pathname, environment, now) ==
  IF method = "OPTIONS"
  THEN Response("null", 200,
                ("Access-Control-Allow-Origin" :> "*")
                  @@ ("Access-Control-Allow-Methods" :> "GET, HEAD, OPTIONS")
                  @@ ("Access-Control-Allow-Headers" :> "Content-Type")
                  @@ ("Access-Control-Max-Age" :> "86400"))
  ELSE IF pathname = <<"/", "health">> \/ pathname = <<"/", "healthz">>
  THEN Response([status |-> "ok", timestamp |-> now], 200,
                Spread("Content-Type" :> "application/json", securityHeaders))
  ELSE IF startsWith(pathname, <<"/", "api", "/">>)
  THEN handleAPI(environment, pathname)
  ELSE Response("html", 200,
                Spread("Content-Type" :> "text/html;charset=UTF-8", securityHeaders))

\* A call that throws returns no value; the model records the error instead.
Thrown(r) == "error" \in DOMAIN r

(***************************************************************************)
(* The inputs a caller draws.                                              *)
(***************************************************************************)
RECURSIVE SeqsUpTo(_, _)
SeqsUpTo(S, n) ==
  IF n = 0 THEN {<<>>}
  ELSE LET shorter == SeqsUpTo(S, n - 1)
       IN  shorter \cup {Append(s, x) : s \in {t \in shorter : Len(t) = n - 1}, x \in S}

Range(s) == {s[i] : i \in 1..Len(s)}

\* Strings and buffers handed to the digest functions.
Strings == {<<>>, <<"a">>, <<"b">>, <<"a", "b">>}
Buffers == {<<"Buffer">>, <<"Buffer", "a">>, <<"Buffer", "FF">>, <<"Buffer", "FE">>,
            <<"Buffer", "a", "FF">>}
Inputs  == Strings \cup Buffers

\* The bytes an input stands for.
Bytes(input) == IF IsString(input) THEN input ELSE Tail(input)

\* Items of a tree: strings, for trees of every size up to MaxItems, and any
\* inputs for the trees of at most two items.
Items    == {<<"a">>, <<"b">>, <<"c">>}
ItemSeqs == SeqsUpTo(Items, MaxItems) \cup SeqsUpTo(Inputs, 2)

\* Depth arguments: below 1, in range, above the ceiling, and Infinity.
Depths     == (0 - 1)..(maxDepth + 2) \cup {Infinity}
TreeDepths == 1..2

\* Index arguments of merkleProof for a given item sequence: in range and
\* on both sides out of range.
Indexes(items) == (0 - 2)..((IF items = null THEN 0 ELSE Len(items)) + 1)

\* Every hash of a tree, the leaves and the inner nodes.
Nodes(tree) == UNION {Range(tree.levels[k]) : k \in 1..Len(tree.levels)}

\* Values an attacker substitutes for a hash.
Foreign == {<<>>, <<"a">>, undefined, sha256(<<"z">>)}

\* Items of a hash chain, and the chains of up to MaxChain of them.
ChainItems == {<<"a">>, <<"b">>, <<"Buffer", "FF">>}
ChainSeqs  == SeqsUpTo(ChainItems, MaxChain)

\* The items a returned chain is extended by.
ExtensionSeqs == SeqsUpTo(ChainItems, MaxExtension)

\* previousHash arguments: none, the genesis digest itself, another digest.
PreviousHashes == {noHash, sha256(genesis), sha256(<<"a">>)}

\* Texts a caller hands to parseVersionedHash: a version field, a depth field
\* and a digest segment, well-formed and not, behind the prefix.
VersionTexts == {version, <<"1">>, <<"1", ".", "0">>, <<".", ".">>, <<>>, <<"1", ".", "x">>}
DepthTexts   == {<<"1">>, <<"0">>, <<"1", "2">>, <<>>, <<"-", "1">>, <<"x">>}
HashTexts    == {sha256(<<"a">>), <<"a", "b", "c">>, sha256(<<"a">>) \o <<"a">>,
                 sha256(<<"a">>) \o <<"g">>, <<"A", "B">>, <<>>}
Prefixes     == {prefix, <<"s", "h", "a", "-", "v">>}

VersionedText(p, v, d, h) == p \o v \o <<"-", "d">> \o d \o <<"-">> \o h

\* Salts and salted inputs: with and without the separator character at the
\* boundary.
Salts      == {<<"a">>, <<"a", ":">>, <<>>}
SaltInputs == {<<"b">>, <<":", "b">>, <<"a">>}
SaltDepths == {1, 2, maxDepth + 1}

\* Keys and data of hmacShaInfinity.
Keys     == {<<"k">>, <<"j">>}
HmacData == {<<"a">>, <<>>, <<"Buffer", "FF">>}

\* The number of loop iterations after which a call is no longer followed.
StepCap == maxDepth + 3

\* Digests handed to compositeHash: two plain ones and the composite of the
\* two, in sequences of up to MaxHashes.
CompositeDigests == {sha256(<<"a">>), sha256(<<"b">>),
                     sha256(sha256(<<"a">>) \o separator \o sha256(<<"b">>))}
CompositeSeqs    == SeqsUpTo(CompositeDigests, MaxHashes)
CompositeDepths  == {1, maxDepth + 1}

\* Values a caller assigns to SHA_INFINITY_CONFIG.maxDepth.
AssignedDepths == {1, maxDepth + 1}

\* The file systems hashDirectory is run on.  A file of a given name and
\* content, a directory of a given name and entries.
File(name, content) ==
  [name |-> name, type |-> "file", content |-> content, entries |-> <<>>]
Directory(name, entries) ==
  [name |-> name, type |-> "directory", content |-> <<>>, entries |-> entries]

Contents == {<<"Buffer", "x">>, <<"Buffer", "y">>}

\* The listings of a subdirectory.
SubListings ==
  {<<>>,
   <<File(NameB, <<"Buffer", "x">>)>>,
   <<File(NameB, <<"Buffer", "x">>), File(NameComposed, <<"Buffer", "y">>)>>,
   <<File(NameComposed, <<"Buffer", "x">>), File(NameDecomposed, <<"Buffer", "y">>)>>}

\* What a name can stand for in the top directory.
EntriesNamed(name) ==
  {File(name, c) : c \in Contents}
    \cup (IF name = NameB THEN {Directory(name, l) : l \in SubListings} ELSE {})

\* The arrays whose elements are the members of the set S, each once.
RECURSIVE Orders(_)
Orders(S) ==
  IF S = {} THEN {<<>>}
  ELSE UNION {{Append(o, e) : o \in Orders(S \ {e})} : e \in S}

\* The listings of the top directory: every set of names, every content of
\* each, every order.
Listings ==
  UNION {Orders(S) :
           S \in {T \in SUBSET (UNION {EntriesNamed(n) : n \in {NameComposed, NameDecomposed, NameB}}) :
                    \A x, y \in T : x.name = y.name => x = y}}

DirectoryDepths == {1, 2}

\* Item sequences a second tree is built from, next to the items of a first
\* tree: the items with the last one repeated, without the last one, in
\* reverse order, and the single item made of the leaf hashes of the first
\* tree.
Reverse(s) == [k \in 1..Len(s) |-> s[Len(s) + 1 - k]]
Variants(items, tree) ==
  IF items = <<>> THEN {<< <<"a">> >>}
  ELSE {Append(items, items[Len(items)]),
        SubSeq(items, 1, Len(items) - 1),
        Reverse(items),
        <<join(tree.leaves, <<>>)>>}

\* Requests to the worker: methods, pathnames, the ENVIRONMENT binding (the
\* empty string when it is not set) and the clock.
Methods      == {"GET", "HEAD", "POST", "OPTIONS"}
Pathnames    == {<<"/">>, <<"/", "health">>, <<"/", "healthz">>, <<"/", "health", "/">>,
                 <<"/", "api">>, <<"/", "api", "/">>, <<"/", "api", "/", "version">>,
                 <<"/", "api", "/", "v1", "/", "version">>,
                 <<"/", "api", "/", "state">>, <<"/", "about">>}
Environments == {"", "staging"}
Clock        == {0, 1}

NoCall == [op |-> "none", arg |-> <<>>, ret |-> <<>>]

Last == [op |-> op, arg |-> arg, ret |-> ret]

Init ==
  /\ op = "none"
  /\ arg = <<>>
  /\ ret = <<>>
  /\ prev = NoCall
  /\ SHA_INFINITY_CONFIG = InitialConfig

\* shaInfinity(input, depth), a first call.
ShaInfinity ==
  /\ op = "none"
  /\ \E input \in Inputs, depth \in Depths :
       /\ op' = "shaInfinity"
       /\ arg' = [input |-> input, depth |-> depth]
       /\ ret' = shaInfinity(input, depth)
       /\ prev' = Last
       /\ UNCHANGED SHA_INFINITY_CONFIG

\* shaInfinity applied to the digest a first shaInfinity call returned.
ShaInfinityAgain ==
  /\ op = "shaInfinity"
  /\ prev.op = "none"
  /\ \E depth \in Depths :
       /\ op' = "shaInfinity"
       /\ arg' = [input |-> ret, depth |-> depth]
       /\ ret' = shaInfinity(ret, depth)
       /\ prev' = Last
       /\ UNCHANGED SHA_INFINITY_CONFIG

\* shaInfinity followed iteration by iteration.  The call is entered: the
\* depth is normalised, the input converted, the loop counter set to 0.
ShaInfinityEnter ==
  /\ op = "none"
  /\ \E input \in Inputs, depth \in Depths :
       /\ op' = "shaInfinity:loop"
       /\ arg' = [input |-> input, depth |-> depth]
       /\ ret' = [hash  |-> IF IsString(input) THEN input ELSE toString(input),
                  i     |-> 0,
                  depth |-> NormalizeDepth(depth)]
       /\ prev' = Last
       /\ UNCHANGED SHA_INFINITY_CONFIG

\* One iteration of the loop: i < depth, hash = sha256(hash), i++.
ShaInfinityIterate ==
  /\ op = "shaInfinity:loop"
  /\ ret.i < ret.depth
  /\ ret' = [ret EXCEPT !.hash = sha256(ret.hash), !.i = ret.i + 1]
  /\ UNCHANGED <<op, arg, prev, SHA_INFINITY_CONFIG>>

\* The loop test fails and the hash is returned.
ShaInfinityReturn ==
  /\ op = "shaInfinity:loop"
  /\ ~(ret.i < ret.depth)
  /\ op' = "shaInfinity"
  /\ ret' = ret.hash
  /\ UNCHANGED arg
  /\ prev' = Last
  /\ UNCHANGED SHA_INFINITY_CONFIG

\* hashChain(items, previousHash), a first call.
HashChain ==
  /\ op = "none"
  /\ \E items \in ChainSeqs, previousHash \in PreviousHashes :
       /\ op' = "hashChain"
       /\ arg' = [items |-> items, previousHash |-> previousHash]
       /\ ret' = hashChain(items, previousHash)
       /\ prev' = Last
       /\ UNCHANGED SHA_INFINITY_CONFIG

\* The chain is extended: hashChain is called again with the finalHash of
\* the chain it returned.
HashChainExtend ==
  /\ op = "hashChain"
  /\ prev.op = "none"
  /\ \E items \in ExtensionSeqs :
       /\ op' = "hashChain"
       /\ arg' = [items |-> items, previousHash |-> ret.finalHash]
       /\ ret' = hashChain(items, ret.finalHash)
       /\ prev' = Last
       /\ UNCHANGED SHA_INFINITY_CONFIG

\* versionedHash(input, depth)
VersionedHash ==
  /\ op = "none"
  /\ \E input \in Inputs, depth \in Depths :
       /\ op' = "versionedHash"
       /\ arg' = [input |-> input, depth |-> depth]
       /\ ret' = versionedHash(input, depth)
       /\ prev' = Last
       /\ UNCHANGED SHA_INFINITY_CONFIG

\* parseVersionedHash on the text versionedHash returned.
ParseVersionedHash ==
  /\ op = "versionedHash"
  /\ op' = "parseVersionedHash"
  /\ arg' = [versionedHashStr |-> ret]
  /\ ret' = parseVersionedHash(ret)
  /\ prev' = Last
  /\ UNCHANGED SHA_INFINITY_CONFIG

\* parseVersionedHash on a text the caller wrote.
ParseText ==
  /\ op = "none"
  /\ \E p \in Prefixes, v \in VersionTexts, d \in DepthTexts, h \in HashTexts :
       /\ op' = "parseVersionedHash"
       /\ arg' = [versionedHashStr |-> VersionedText(p, v, d, h)]
       /\ ret' = parseVersionedHash(VersionedText(p, v, d, h))
       /\ prev' = Last
       /\ UNCHANGED SHA_INFINITY_CONFIG

\* merkleTree(items, depth)
MerkleTree ==
  /\ op = "none"
  /\ \E items \in ItemSeqs \cup {null}, depth \in TreeDepths :
       /\ op' = "merkleTree"
       /\ arg' = [items |-> items, depth |-> depth]
       /\ ret' = merkleTree(items, depth)
       /\ prev' = Last
       /\ UNCHANGED SHA_INFINITY_CONFIG

\* merkleTree on no items, at every depth argument.
MerkleTreeEmpty ==
  /\ op = "none"
  /\ \E items \in {<<>>, null}, depth \in Depths :
       /\ op' = "merkleTree"
       /\ arg' = [items |-> items, depth |-> depth]
       /\ ret' = merkleTree(items, depth)
       /\ prev' = Last
       /\ UNCHANGED SHA_INFINITY_CONFIG

\* merkleProof(items, index, depth)
MerkleProof ==
  /\ op = "none"
  /\ \E items \in SeqsUpTo(Items, MaxItems) \cup {null}, depth \in TreeDepths :
       \E index \in Indexes(items) :
         /\ op' = "merkleProof"
         /\ arg' = [items |-> items, index |-> index, depth |-> depth]
         /\ ret' = merkleProof(items, index, depth)
         /\ prev' = Last
         /\ UNCHANGED SHA_INFINITY_CONFIG

\* verifyMerkleProof(proof.leaf, proof.proof, proof.root) on the object
\* merkleProof returned.
VerifyProof ==
  /\ op = "merkleProof"
  /\ op' = "verifyMerkleProof"
  /\ arg' = [leaf |-> ret.leaf, proof |-> ret.proof, root |-> ret.root]
  /\ ret' = verifyMerkleProof(ret.leaf, ret.proof, ret.root)
  /\ prev' = Last
  /\ UNCHANGED SHA_INFINITY_CONFIG

\* The same call after the leaf hash was replaced by another value.
VerifyTamperedLeaf ==
  /\ op = "merkleProof"
  /\ \E v \in (Nodes(merkleTree(arg.items, arg.depth)) \cup Foreign) \ {ret.leaf} :
       /\ op' = "verifyMerkleProof"
       /\ arg' = [leaf |-> v, proof |-> ret.proof, root |-> ret.root]
       /\ ret' = verifyMerkleProof(v, ret.proof, ret.root)
       /\ prev' = Last
       /\ UNCHANGED SHA_INFINITY_CONFIG

\* The same call after the hash of one proof step was replaced.
VerifyTamperedStep ==
  /\ op = "merkleProof"
  /\ \E k \in 1..Len(ret.proof) :
       \E v \in (Nodes(merkleTree(arg.items, arg.depth)) \cup Foreign) \ {ret.proof[k].hash} :
         LET proof == [ret.proof EXCEPT ![k].hash = v]
         IN  /\ op' = "verifyMerkleProof"
             /\ arg' = [leaf |-> ret.leaf, proof |-> proof, root |-> ret.root]
             /\ ret' = verifyMerkleProof(ret.leaf, proof, ret.root)
             /\ prev' = Last
             /\ UNCHANGED SHA_INFINITY_CONFIG

\* verifyMerkleProof against the root of a tree, with a hash and a proof the
\* caller made up from the hashes of the tree.
VerifyForged ==
  /\ op = "merkleTree"
  /\ arg.items # null
  /\ Len(arg.items) <= MaxForgeItems
  /\ LET hashes == Nodes(ret) \cup {sha256(<<"z">>)}
         steps  == [hash : hashes, position : {"left", "right"}]
     IN  \E leaf \in hashes, proof \in SeqsUpTo(steps, MaxProof) :
           /\ op' = "verifyMerkleProof"
           /\ arg' = [leaf |-> leaf, proof |-> proof, root |-> ret.root]
           /\ ret' = verifyMerkleProof(leaf, proof, ret.root)
           /\ prev' = Last
           /\ UNCHANGED SHA_INFINITY_CONFIG

\* shaInfinitySalted(input, salt, depth), a first call.
ShaInfinitySalted ==
  /\ op = "none"
  /\ \E input \in SaltInputs, salt \in Salts, depth \in SaltDepths :
       /\ op' = "shaInfinitySalted"
       /\ arg' = [input |-> input, salt |-> salt, depth |-> depth]
       /\ ret' = shaInfinitySalted(input, salt, depth)
       /\ prev' = Last
       /\ UNCHANGED SHA_INFINITY_CONFIG

\* A second shaInfinitySalted call, at the depth of the first.
ShaInfinitySaltedAgain ==
  /\ op = "shaInfinitySalted"
  /\ prev.op = "none"
  /\ \E input \in SaltInputs, salt \in Salts :
       /\ op' = "shaInfinitySalted"
       /\ arg' = [input |-> input, salt |-> salt, depth |-> arg.depth]
       /\ ret' = shaInfinitySalted(input, salt, arg.depth)
       /\ prev' = Last
       /\ UNCHANGED SHA_INFINITY_CONFIG

\* hmacShaInfinity(key, data, depth) for a finite depth.
HmacShaInfinity ==
  /\ op = "none"
  /\ \E key \in Keys, data \in HmacData, depth \in Depths \ {Infinity} :
       /\ op' = "hmacShaInfinity"
       /\ arg' = [key |-> key, data |-> data, depth |-> depth]
       /\ ret' = hmacShaInfinity(key, data, depth)
       /\ prev' = Last
       /\ UNCHANGED SHA_INFINITY_CONFIG

\* hmacShaInfinity followed iteration by iteration.  The call is entered:
\* the HMAC is computed and the loop counter set to 1.
HmacShaInfinityEnter ==
  /\ op = "none"
  /\ \E key \in Keys, data \in HmacData, depth \in Depths :
       /\ op' = "hmacShaInfinity:loop"
       /\ arg' = [key |-> key, data |-> data, depth |-> depth]
       /\ ret' = [hmac |-> hmacSha256(key, data), i |-> 1]
       /\ prev' = Last
       /\ UNCHANGED SHA_INFINITY_CONFIG

\* One iteration of the loop: i < depth, hmac = sha256(hmac), i++.
HmacShaInfinityIterate ==
  /\ op = "hmacShaInfinity:loop"
  /\ LoopTest(ret.i, arg.depth)
  /\ ret.i < StepCap
  /\ ret' = [hmac |-> sha256(ret.hmac), i |-> ret.i + 1]
  /\ UNCHANGED <<op, arg, prev, SHA_INFINITY_CONFIG>>

\* The loop test fails and the hmac is returned.
HmacShaInfinityReturn ==
  /\ op = "hmacShaInfinity:loop"
  /\ ~LoopTest(ret.i, arg.depth)
  /\ op' = "hmacShaInfinity"
  /\ ret' = ret.hmac
  /\ UNCHANGED arg
  /\ prev' = Last
  /\ UNCHANGED SHA_INFINITY_CONFIG

\* compositeHash(hashes, depth), a first call.
CompositeHash ==
  /\ op = "none"
  /\ \E hashes \in CompositeSeqs, depth \in CompositeDepths :
       /\ op' = "compositeHash"
       /\ arg' = [hashes |-> hashes, depth |-> depth]
       /\ ret' = compositeHash(hashes, depth)
       /\ prev' = Last
       /\ UNCHANGED SHA_INFINITY_CONFIG

\* A second compositeHash call, at the depth of the first.
CompositeHashAgain ==
  /\ op = "compositeHash"
  /\ prev.op = "none"
  /\ \E hashes \in CompositeSeqs :
       /\ op' = "compositeHash"
       /\ arg' = [hashes |-> hashes, depth |-> arg.depth]
       /\ ret' = compositeHash(hashes, arg.depth)
       /\ prev' = Last
       /\ UNCHANGED SHA_INFINITY_CONFIG

\* The caller assigns a property of the exported configuration object,
\* after a shaInfinity call: SHA_INFINITY_CONFIG.maxDepth = value.
ConfigAssign ==
  /\ op = "shaInfinity"
  /\ prev.op = "none"
  /\ \E value \in AssignedDepths :
       /\ op' = "SHA_INFINITY_CONFIG.maxDepth="
       /\ arg' = [value |-> value]
       /\ ret' = value
       /\ SHA_INFINITY_CONFIG' = [SHA_INFINITY_CONFIG EXCEPT !.maxDepth = value]
       /\ prev' = Last

\* shaInfinity called again with the arguments of the call before the
\* assignment.
ShaInfinityRepeat ==
  /\ op = "SHA_INFINITY_CONFIG.maxDepth="
  /\ op' = "shaInfinity:repeat"
  /\ arg' = prev.arg
  /\ ret' = shaInfinityUnder(SHA_INFINITY_CONFIG, prev.arg.input, prev.arg.depth)
  /\ UNCHANGED <<prev, SHA_INFINITY_CONFIG>>

\* hashDirectory(dirPath, depth) on a directory the file system lists in
\* some order.
HashDirectory ==
  /\ op = "none"
  /\ \E entries \in Listings, depth \in DirectoryDepths :
       /\ op' = "hashDirectory"
       /\ arg' = [entries |-> entries, depth |-> depth]
       /\ ret' = hashDirectory(entries, depth)
       /\ prev' = Last
       /\ UNCHANGED SHA_INFINITY_CONFIG

\* The same call on the same directory, listed in another order.
HashDirectoryAgain ==
  /\ op = "hashDirectory"
  /\ prev.op = "none"
  /\ \E entries \in Orders(Range(arg.entries)) :
       /\ op' = "hashDirectory"
       /\ arg' = [entries |-> entries, depth |-> arg.depth]
       /\ ret' = hashDirectory(entries, arg.depth)
       /\ prev' = Last
       /\ UNCHANGED SHA_INFINITY_CONFIG

\* A second merkleTree call at the depth of the first, on other items.
MerkleTreeSecond ==
  /\ op = "merkleTree"
  /\ prev.op = "none"
  /\ arg.items # null
  /\ \E items \in Variants(arg.items, ret) :
       /\ op' = "merkleTree:second"
       /\ arg' = [items |-> items, depth |-> arg.depth]
       /\ ret' = merkleTree(items, arg.depth)
       /\ prev' = Last
       /\ UNCHANGED SHA_INFINITY_CONFIG

\* fetch(request, env, ctx): the worker answers a request.
Fetch ==
  /\ op = "none"
  /\ \E method \in Methods, pathname \in Pathnames, environment \in Environments,
        now \in Clock :
       /\ op' = "fetch"
       /\ arg' = [method |-> method, pathname |-> pathname, environment |-> environment]
       /\ ret' = fetch(method, pathname, environment, now)
       /\ prev' = Last
       /\ UNCHANGED SHA_INFINITY_CONFIG

Next ==
  \/ ShaInfinity
  \/ ShaInfinityAgain
  \/ ShaInfinityEnter
  \/ ShaInfinityIterate
  \/ ShaInfinityReturn
  \/ HashChain
  \/ HashChainExtend
  \/ VersionedHash
  \/ ParseVersionedHash
  \/ ParseText
  \/ MerkleTree
  \/ MerkleTreeEmpty
  \/ MerkleProof
  \/ VerifyProof
  \/ VerifyTamperedLeaf
  \/ VerifyTamperedStep
  \/ VerifyForged
  \/ ShaInfinitySalted
  \/ ShaInfinitySaltedAgain
  \/ HmacShaInfinity
  \/ HmacShaInfinityEnter
  \/ HmacShaInfinityIterate
  \/ HmacShaInfinityReturn
  \/ CompositeHash
  \/ CompositeHashAgain
  \/ ConfigAssign
  \/ ShaInfinityRepeat
  \/ HashDirectory
  \/ HashDirectoryAgain
  \/ MerkleTreeSecond
  \/ Fetch

Spec == Init /\ [][Next]_vars

(***************************************************************************)
(* Properties.                                                             *)
(***************************************************************************)
\* The index is one of the items' positions.
ValidIndex(items, index) == items # null /\ index >= 0 /\ index < Len(items)

\* verifyMerkleProof was called on the unchanged result of merkleProof.
HonestVerify ==
  /\ op = "verifyMerkleProof"
  /\ prev.op = "merkleProof"
  /\ arg.leaf = prev.ret.leaf
  /\ arg.proof = prev.ret.proof

\* C1 (as claimed): proof completeness.  For every non-empty item sequence,
\* every depth and every valid index, verifying the leaf and the proof that
\* merkleProof returned against the root of the tree returns true.
C1_ProofCompleteness ==
  (HonestVerify /\ ValidIndex(prev.arg.items, prev.arg.index))
    => /\ arg.root = merkleTree(prev.arg.items, prev.arg.depth).root
       /\ ret = TRUE

\* C2 (as claimed): proof soundness.  When verifyMerkleProof accepts a hash
\* and a proof against the root of a tree, the hash is the hash of one of the
\* leaves and the positions of the proof are those of the path of that leaf.
C2_ProofSoundness ==
  (op = "verifyMerkleProof" /\ prev.op = "merkleTree" /\ ret = TRUE)
    => \E i \in 0..(Len(prev.arg.items) - 1) :
         /\ arg.leaf = At(prev.ret.leaves, i)
         /\ [k \in 1..Len(arg.proof) |-> arg.proof[k].position]
              = LET path == merkleProof(prev.arg.items, i, prev.arg.depth).proof
                IN  [k \in 1..Len(path) |-> path[k].position]

\* C3 (as claimed): merkleProof fails with an error, and returns no proof
\* object, whenever the index is outside [0, len(items)).
C3_ProofIndexOutOfRange ==
  (op = "merkleProof" /\ ~ValidIndex(arg.items, arg.index)) => Thrown(ret)

\* The call before verifyMerkleProof was a merkleProof for a valid index whose
\* own result verifies.
VerifiedProof ==
  /\ op = "verifyMerkleProof"
  /\ prev.op = "merkleProof"
  /\ ValidIndex(prev.arg.items, prev.arg.index)
  /\ verifyMerkleProof(prev.ret.leaf, prev.ret.proof, prev.ret.root)
  /\ arg.root = prev.ret.root

\* Only the leaf hash was replaced, by a different value.
LeafReplaced == arg.leaf # prev.ret.leaf /\ arg.proof = prev.ret.proof

\* Only the hash of step k was replaced, by a different value.
StepReplaced(k) ==
  /\ arg.leaf = prev.ret.leaf
  /\ Len(arg.proof) = Len(prev.ret.proof)
  /\ k \in 1..Len(arg.proof)
  /\ arg.proof[k].hash # prev.ret.proof[k].hash
  /\ arg.proof = [prev.ret.proof EXCEPT ![k].hash = arg.proof[k].hash]

\* C4: tamper detection.  Given a proof of merkleProof for a valid index that
\* verifies against the root, verifyMerkleProof returns false once the leaf
\* hash, or the hash of any one proof step, is replaced by a different value.
C4_TamperDetected ==
  (VerifiedProof /\ (LeafReplaced \/ \E k \in 1..Len(arg.proof) : StepReplaced(k)))
    => ret = FALSE

\* A proof of two steps whose second step was replaced, and was rejected.
C4_Witness ==
  /\ VerifiedProof
  /\ Len(arg.proof) = 2
  /\ StepReplaced(2)
  /\ ret = FALSE

\* C4, the other case: the leaf of a verifying proof was replaced by the hash
\* of another node of the tree, and was rejected.
C4_WitnessLeaf ==
  /\ VerifiedProof
  /\ LeafReplaced
  /\ arg.leaf \in Nodes(merkleTree(prev.arg.items, prev.arg.depth))
  /\ ret = FALSE

\* C5: Merkle level structure.  In the tree of a non-empty item sequence,
\* level k+1 has ceil(len(level k)/2) entries, and entry j is the single
\* plain digest of level_k[2j] ++ level_k[2j+1], the right operand being the
\* left one again for the unpaired last node of an odd-length level.
C5_LevelStructure ==
  (op = "merkleTree" /\ arg.items # null /\ Len(arg.items) > 0)
    => \A k \in 1..(Len(ret.levels) - 1) :
         LET lower == ret.levels[k]
             upper == ret.levels[k + 1]
         IN  /\ Len(upper) = (Len(lower) + 1) \div 2
             /\ \A j \in 0..(Len(upper) - 1) :
                  upper[j + 1] =
                    <<"<">> \o lower[2 * j + 1]
                            \o (IF 2 * j + 1 < Len(lower)
                                THEN lower[2 * j + 2]
                                ELSE lower[2 * j + 1])
                            \o <<">">>

\* A tree of iterated leaves with an odd level above the leaves.
C5_Witness ==
  /\ op = "merkleTree"
  /\ arg.items # null
  /\ Len(arg.items) = 5
  /\ arg.depth = 2
  /\ Len(ret.levels) = 4
  /\ Len(ret.levels[2]) = 3

\* 2^n
RECURSIVE Pow2(_)
Pow2(n) == IF n = 0 THEN 1 ELSE 2 * Pow2(n - 1)

\* The step the claim expects at level l (zero-based) for the leaf at index.
ExpectedStep(tree, index, l) ==
  LET idx == index \div Pow2(l)
  IN  IF idx % 2 = 0
      THEN [hash |-> tree.levels[l + 1][idx + 2], position |-> "right"]
      ELSE [hash |-> tree.levels[l + 1][idx], position |-> "left"]

\* The sibling of the running index exists at level l.
HasSibling(tree, index, l) ==
  LET idx == index \div Pow2(l)
  IN  idx % 2 = 1 \/ idx + 1 < Len(tree.levels[l + 1])

RECURSIVE ExpectedProof(_, _, _)
ExpectedProof(tree, index, l) ==
  IF l >= Len(tree.levels) - 1 THEN <<>>
  ELSE (IF HasSibling(tree, index, l) THEN <<ExpectedStep(tree, index, l)>> ELSE <<>>)
       \o ExpectedProof(tree, index, l + 1)

\* C6: proof shape.  For a valid index merkleProof records, from the leaf
\* level up, one step (sibling hash; 'right' for an even running index, 'left'
\* for an odd one) at every level where the sibling exists and nothing where
\* the running index is the unpaired last node, halving the index at every
\* level; for 3 items and index 2 the proof is the single step
\* {hash: sha256(leaf_0 ++ leaf_1), position: 'left'}.
C6_ProofShape ==
  (op = "merkleProof" /\ ValidIndex(arg.items, arg.index))
    => LET tree == merkleTree(arg.items, arg.depth)
       IN  /\ ret.proof = ExpectedProof(tree, arg.index, 0)
           /\ (Len(arg.items) = 3 /\ arg.index = 2)
                => ret.proof = <<[hash     |-> sha256(tree.leaves[1] \o tree.leaves[2]),
                                  position |-> "left"]>>

\* The proof of the last of 5 items: unpaired at the two lowest levels, one
\* step at the third.
C6_Witness ==
  /\ op = "merkleProof"
  /\ arg.items # null
  /\ Len(arg.items) = 5
  /\ arg.index = 4
  /\ Len(ret.proof) = 1
  /\ ret.proof[1].position = "left"

\* C7: empty tree.  merkleTree on an empty or absent item sequence returns, at
\* every depth, the digest of the empty string as root, with an empty levels
\* list and an empty leaves list.
C7_EmptyTree ==
  (op = "merkleTree" /\ (arg.items = null \/ arg.items = <<>>))
    => /\ ret.root = <<"<", ">">>
       /\ ret.levels = <<>>
       /\ ret.leaves = <<>>

\* The empty sequence at a depth above 1.
C7_Witness ==
  /\ op = "merkleTree"
  /\ arg.items = <<>>
  /\ arg.depth = maxDepth
  /\ ret.root = sha256(<<>>)

\* C8 (as claimed): order sensitivity.  For two items of different bytes and
\* any depth, the tree of [a, b] and the tree of [b, a] have different roots.
C8_OrderSensitive ==
  (/\ op = "merkleTree"
   /\ arg.items # null
   /\ Len(arg.items) = 2
   /\ Bytes(arg.items[1]) # Bytes(arg.items[2]))
    => ret.root # merkleTree(<<arg.items[2], arg.items[1]>>, arg.depth).root

\* C9 (as claimed): for every input, a string or a raw byte buffer,
\* shaInfinity(x, 1) is sha256(x), the digest of the same bytes.
C9_DepthOneIsDigest ==
  (op = "shaInfinity" /\ prev.op = "none" /\ arg.depth = 1)
    => ret = <<"<">> \o Bytes(arg.input) \o <<">">>

\* shaInfinity(x, a) was followed by shaInfinity of its result at depth b,
\* both depths finite and at least 1.
Composed ==
  /\ op = "shaInfinity"
  /\ prev.op = "shaInfinity"
  /\ arg.input = prev.ret
  /\ prev.arg.depth >= 1 /\ prev.arg.depth # Infinity
  /\ arg.depth >= 1 /\ arg.depth # Infinity

\* C10 (as claimed): shaInfinity(x, a + b) = shaInfinity(shaInfinity(x, a), b)
\* for all depths a, b >= 1, also when a + b exceeds the maximum depth.
C10_ComposeAnyDepth ==
  Composed => ret = shaInfinity(prev.arg.input, prev.arg.depth + arg.depth)

\* C10 (amended): the same equation for all integer depths a, b >= 1 with
\* a + b <= maxDepth.
C10_ComposeWithinMax ==
  (Composed /\ prev.arg.depth + arg.depth <= maxDepth)
    => ret = shaInfinity(prev.arg.input, prev.arg.depth + arg.depth)

\* A buffer hashed at depth 1 and its digest hashed again up to the ceiling.
C10_Witness ==
  /\ Composed
  /\ ~IsString(prev.arg.input)
  /\ prev.arg.depth = 1
  /\ arg.depth = maxDepth - 1
  /\ ret = shaInfinity(prev.arg.input, maxDepth)

\* C11: depth saturation.  For every input, shaInfinity with an integer depth
\* below 1 returns what depth 1 returns, with an integer depth above maxDepth
\* what depth maxDepth returns, and it returns a digest, not an error, for
\* every depth.
C11_DepthSaturation ==
  (op = "shaInfinity" /\ arg.depth # Infinity)
    => /\ arg.depth < 1 => ret = shaInfinity(arg.input, 1)
       /\ arg.depth > maxDepth => ret = shaInfinity(arg.input, maxDepth)
       /\ Head(ret) = "<" /\ ret[Len(ret)] = ">"

\* A buffer hashed at a depth above the ceiling.
C11_Witness ==
  /\ op = "shaInfinity"
  /\ ~IsString(arg.input)
  /\ arg.depth = maxDepth + 2
  /\ ret = shaInfinity(arg.input, maxDepth)

\* A depth below 1.
C11_WitnessLow ==
  /\ op = "shaInfinity"
  /\ arg.depth = 0 - 1
  /\ ret = shaInfinity(arg.input, 1)

\* n digests applied to a text.
RECURSIVE Digests(_, _)
Digests(text, n) == IF n = 0 THEN text ELSE <<"<">> \o Digests(text, n - 1) \o <<">">>

\* The depth normalised into [1, maxDepth], Infinity counting as maxDepth.
Normalized(d) ==
  IF d = Infinity THEN maxDepth
  ELSE IF d < 1 THEN 1
  ELSE IF d > maxDepth THEN maxDepth
  ELSE d

\* C12: bounded iteration.  For every depth argument (an integer or Infinity)
\* the loop of shaInfinity has applied the digest i times after i iterations,
\* never runs past n, the depth normalised into [1, maxDepth], and returns
\* after exactly n applications: never after none, never without bound.
C12_BoundedIteration ==
  LET text(input) == IF IsString(input) THEN input ELSE toString(input)
  IN  /\ op = "shaInfinity:loop"
           => /\ ret.depth = Normalized(arg.depth)
              /\ ret.depth \in 1..maxDepth
              /\ ret.i \in 0..ret.depth
              /\ ret.hash = Digests(text(arg.input), ret.i)
      /\ (op = "shaInfinity" /\ prev.op = "shaInfinity:loop")
           => /\ prev.ret.i = Normalized(arg.depth)
              /\ prev.ret.i >= 1
              /\ ret = Digests(text(arg.input), Normalized(arg.depth))

\* shaInfinity(x, Infinity) has returned after maxDepth iterations.
C12_Witness ==
  /\ op = "shaInfinity"
  /\ prev.op = "shaInfinity:loop"
  /\ arg.depth = Infinity
  /\ prev.ret.i = maxDepth

\* The digest a chain starts from: previousHash when one is supplied, the
\* digest of 'genesis' when it is absent.
StartDigest(previousHash) ==
  IF previousHash = noHash
  THEN <<"<", "g", "e", "n", "e", "s", "i", "s", ">">>
  ELSE previousHash

\* C13: hash chain link rule.  Link i of hashChain(items, previousHash) has
\* itemHash = sha256(items[i]) and chainHash = sha256(prev_i ++ itemHash), where
\* prev_0 is previousHash when supplied and sha256('genesis') when absent, and
\* prev_i for i > 0 is the chainHash of link i-1.
C13_ChainLinkRule ==
  op = "hashChain"
    => \A i \in 1..Len(ret.chain) :
         LET link   == ret.chain[i]
             before == IF i = 1 THEN StartDigest(arg.previousHash)
                       ELSE ret.chain[i - 1].chainHash
         IN  /\ link.itemHash = <<"<">> \o Bytes(arg.items[i]) \o <<">">>
             /\ link.chainHash = <<"<">> \o before \o link.itemHash \o <<">">>

\* A chain of three links started without a previousHash.
C13_Witness ==
  /\ op = "hashChain"
  /\ arg.previousHash = noHash
  /\ Len(ret.chain) = 3
  /\ ret.chain[1].chainHash = sha256(sha256(genesis) \o sha256(arg.items[1]))

\* One link per item, in item order, length the number of items, and
\* finalHash the chainHash of the last link or, for no items, the starting
\* digest.
ChainShape ==
  /\ Len(ret.chain) = Len(arg.items)
  /\ \A i \in 1..Len(arg.items) : ret.chain[i].item = arg.items[i]
  /\ ret.length = Len(arg.items)
  /\ ret.finalHash = IF arg.items = <<>> THEN StartDigest(arg.previousHash)
                     ELSE ret.chain[Len(ret.chain)].chainHash

\* C14 (as claimed): hash chain output shape.  One link per item in item
\* order, length the number of items, finalHash the last chainHash or the
\* starting digest for no items, and the result carries the genesis value the
\* chain started from.
C14_ChainShapeWithGenesis ==
  op = "hashChain"
    => /\ ChainShape
       /\ ret.previousHash = StartDigest(arg.previousHash)

\* C14 (amended): the same shape, the result carrying the previousHash
\* argument as it was passed: null when it was absent, not the digest of
\* 'genesis' the chain then started from.
C14_ChainShape ==
  op = "hashChain"
    => /\ ChainShape
       /\ ret.previousHash = arg.previousHash
       /\ arg.previousHash = noHash => ret.previousHash # StartDigest(arg.previousHash)

\* No items and no previousHash: finalHash is the digest of 'genesis'.
C14_Witness ==
  /\ op = "hashChain"
  /\ arg.items = <<>>
  /\ arg.previousHash = noHash
  /\ ret.length = 0
  /\ ret.finalHash = sha256(genesis)
  /\ ret.previousHash = noHash

\* The bytes of the items of a sequence.
ItemBytes(items) == [i \in 1..Len(items) |-> Bytes(items[i])]

\* C15: chain injectivity.  For one starting digest, an item sequence that
\* differs from the one given (in an item, in order or in length, the empty
\* sequence included) never yields the same finalHash.
C15_ChainInjective ==
  op = "hashChain"
    => \A other \in ChainSeqs :
         ItemBytes(other) # ItemBytes(arg.items)
           => hashChain(other, arg.previousHash).finalHash # ret.finalHash

\* A chain of two items whose reversal, whose prefix and the empty sequence
\* all end in other digests.
C15_Witness ==
  /\ op = "hashChain"
  /\ Len(arg.items) = 2
  /\ arg.items[1] # arg.items[2]
  /\ ret.finalHash # hashChain(<<arg.items[2], arg.items[1]>>, arg.previousHash).finalHash
  /\ ret.finalHash # hashChain(<<arg.items[1]>>, arg.previousHash).finalHash
  /\ ret.finalHash # hashChain(<<>>, arg.previousHash).finalHash

\* The first n elements of a sequence.
Prefix(s, n) == SubSeq(s, 1, n)

\* C16: chain prefix dependence.  Link i depends only on the starting digest
\* and items[0..i]: a sequence that agrees with the given one up to i has the
\* same links 0..i whatever follows, and one that differs from it in item i
\* only has another chainHash at link i and at every later link.
C16_PrefixDependence ==
  op = "hashChain"
    => \A other \in ChainSeqs :
         LET chain == hashChain(other, arg.previousHash).chain
         IN  /\ \A n \in 1..Len(arg.items) :
                  (Len(other) >= n /\ Prefix(other, n) = Prefix(arg.items, n))
                    => Prefix(chain, n) = Prefix(ret.chain, n)
             /\ \A i \in 1..Len(arg.items) :
                  (/\ Len(other) = Len(arg.items)
                   /\ Bytes(other[i]) # Bytes(arg.items[i])
                   /\ \A j \in 1..Len(other) : j # i => other[j] = arg.items[j])
                    => \A j \in i..Len(other) : chain[j].chainHash # ret.chain[j].chainHash

\* A chain of MaxChain items: the chains of its prefixes are prefixes of it.
C16_Witness ==
  /\ op = "hashChain"
  /\ prev.op = "none"
  /\ Len(arg.items) = MaxChain
  /\ Prefix(ret.chain, 1) = hashChain(Prefix(arg.items, 1), arg.previousHash).chain

\* C17: chain extension.  hashChain(xs, p) followed by hashChain(ys, its
\* finalHash) gives the links and the finalHash of hashChain(xs ++ ys, p), for
\* every starting digest p or none, and also for empty xs.
C17_ChainExtension ==
  (op = "hashChain" /\ prev.op = "hashChain")
    => LET whole == hashChain(prev.arg.items \o arg.items, prev.arg.previousHash)
       IN  /\ arg.previousHash = prev.ret.finalHash
           /\ prev.ret.chain \o ret.chain = whole.chain
           /\ ret.finalHash = whole.finalHash

\* An empty chain without previousHash, extended by two items.
C17_Witness ==
  /\ op = "hashChain"
  /\ prev.op = "hashChain"
  /\ prev.arg.items = <<>>
  /\ prev.arg.previousHash = noHash
  /\ Len(ret.chain) = 2
  /\ ret.finalHash = hashChain(arg.items, noHash).finalHash

\* C18 (as claimed): versioned-hash round trip.  For every input x and every
\* depth d, parseVersionedHash(versionedHash(x, d)) succeeds and returns
\* {version: the configured version, depth: d, hash: shaInfinity(x, d)}.
C18_RoundTrip ==
  (op = "parseVersionedHash" /\ prev.op = "versionedHash")
    => /\ ~Thrown(ret)
       /\ ret.version = version
       /\ ret.depth = prev.arg.depth
       /\ ret.hash = shaInfinity(prev.arg.input, prev.arg.depth)

\* The number of characters of a sequence of units.
RECURSIVE HexLength(_)
HexLength(units) ==
  IF units = <<>> THEN 0
  ELSE (IF Len(Head(units)) > 1 THEN DigestHexLength ELSE 1) + HexLength(Tail(units))

\* A text of exactly DigestHexLength lowercase hex characters.
FullHexDigest(text) ==
  LET units == Units(text)
  IN  /\ \A i \in 1..Len(units) : InClass(units[i], "hex")
      /\ HexLength(units) = DigestHexLength

\* C19 (as claimed): parseVersionedHash rejects with an error every text
\* whose digest segment is not a full-length lowercase hex digest: shorter,
\* longer, or with a character that is no hex digit.
C19_RejectsBadDigest ==
  op = "parseVersionedHash"
    => \A p \in Prefixes, v \in VersionTexts, d \in DepthTexts, h \in HashTexts :
         (arg.versionedHashStr = VersionedText(p, v, d, h) /\ ~FullHexDigest(h))
           => Thrown(ret)

\* A text of three numbers separated by two dots.
ThreeNumbers(text) ==
  LET dots == {i \in 1..Len(text) : text[i] = "."}
  IN  /\ Cardinality(dots) = 2
      /\ \A i \in 1..Len(text) : i \notin dots => text[i] \in Digits
      /\ 1 \notin dots /\ Len(text) \notin dots
      /\ \A i \in dots : i + 1 \notin dots

\* C20 (as claimed): parseVersionedHash accepts a text only when its version
\* field is three dot-separated numbers and its depth field a positive
\* integer; versions '1', '1.0', '..' and depth 0 are parse failures.
C20_RejectsBadFields ==
  (op = "parseVersionedHash" /\ ~Thrown(ret))
    => /\ ThreeNumbers(ret.version)
       /\ ret.depth > 0

(***************************************************************************)
(* C21: two shaInfinitySalted calls at the same depth whose (salt, input)  *)
(* pairs differ never return the same salted hash: the place of the        *)
(* boundary between salt and input is part of what is hashed.              *)
(***************************************************************************)
C21_SaltBoundary ==
  (/\ op = "shaInfinitySalted"
   /\ prev.op = "shaInfinitySalted"
   /\ arg.depth = prev.arg.depth
   /\ <<arg.salt, arg.input>> # <<prev.arg.salt, prev.arg.input>>)
  => ret # prev.ret

\* hmacShaInfinity has returned for an integer depth of at least 1.
HmacReturned ==
  /\ op = "hmacShaInfinity"
  /\ arg.depth >= 1

\* C22 (as claimed): hmacShaInfinity(k, x, d) is the HMAC followed by exactly
\* d - 1 plain digests, so depth 1 returns the bare HMAC and
\* hmacShaInfinity(k, x, d) = shaInfinity(hmacShaInfinity(k, x, 1), d - 1)
\* for every d >= 2.
C22_HmacAnyDepth ==
  HmacReturned
    => /\ ret = Digests(hmacSha256(arg.key, arg.data), arg.depth - 1)
       /\ arg.depth = 1 => ret = hmacSha256(arg.key, arg.data)
       /\ arg.depth >= 2
            => ret = shaInfinity(hmacShaInfinity(arg.key, arg.data, 1), arg.depth - 1)

\* C22 (amended): the same, the equation with shaInfinity for the depths
\* 2 <= d <= maxDepth + 1 only.
C22_HmacWithinMax ==
  HmacReturned
    => /\ ret = Digests(hmacSha256(arg.key, arg.data), arg.depth - 1)
       /\ arg.depth = 1 => ret = hmacSha256(arg.key, arg.data)
       /\ (arg.depth >= 2 /\ arg.depth <= maxDepth + 1)
            => ret = shaInfinity(hmacShaInfinity(arg.key, arg.data, 1), arg.depth - 1)

\* The loop has run to the largest depth of the amended equation and
\* returned.
C22_Witness ==
  /\ HmacReturned
  /\ prev.op = "hmacShaInfinity:loop"
  /\ arg.depth = maxDepth + 1
  /\ prev.ret.i = maxDepth + 1
  /\ ret = shaInfinity(hmacSha256(arg.key, arg.data), maxDepth)

\* The digests in order with the separator in front of every one but the
\* first.
RECURSIVE Separated(_, _)
Separated(hashes, k) ==
  IF k > Len(hashes) THEN <<>>
  ELSE (IF k > 1 THEN <<":">> ELSE <<>>) \o hashes[k] \o Separated(hashes, k + 1)

\* C23: compositeHash(hashes, depth) is shaInfinity of the digests joined
\* with the separator; two different sequences of digests never give the
\* same joined pre-image nor, at equal depth, the same composite hash, and
\* in particular compositeHash([a, b], d) differs from compositeHash([b, a], d)
\* for different digests a and b.
C23_CompositeOrder ==
  /\ op = "compositeHash"
       => ret = Digests(Separated(arg.hashes, 1), Normalized(arg.depth))
  /\ (op = "compositeHash" /\ prev.op = "compositeHash" /\ arg.hashes # prev.arg.hashes)
       => /\ Separated(arg.hashes, 1) # Separated(prev.arg.hashes, 1)
          /\ ret # prev.ret

\* Two different digests folded in one order and then in the other.
C23_Witness ==
  /\ op = "compositeHash"
  /\ prev.op = "compositeHash"
  /\ Len(arg.hashes) = 2
  /\ arg.hashes[1] # arg.hashes[2]
  /\ prev.arg.hashes = <<arg.hashes[2], arg.hashes[1]>>
  /\ ret # prev.ret

\* C24: statelessness.  The configuration is the constant the module starts
\* with in every state a caller can reach through the exported interface,
\* and a call repeated with identical arguments returns the identical
\* result, whatever happened between the two calls.
C24_Stateless ==
  /\ SHA_INFINITY_CONFIG = InitialConfig
  /\ op = "shaInfinity:repeat" => ret = prev.ret

\* C25: hashDirectory does not depend on the order of enumeration.  Run
\* twice on the same set of entries, listed in any two orders, it returns
\* the same root and the same files list; on an empty directory it returns
\* the root of the empty tree.
C25_EnumerationOrder ==
  /\ (op = "hashDirectory" /\ prev.op = "hashDirectory")
       => /\ ret.root = prev.ret.root
          /\ ret.files = prev.ret.files
  /\ (op = "hashDirectory" /\ arg.entries = <<>>)
       => ret.root = sha256(<<>>)

\* C26: hmacShaInfinity normalises its depth as shaInfinity does.  A depth
\* above maxDepth, Infinity included, gives the result of depth maxDepth, a
\* depth below 1 the result of depth 1, and no call applies more than
\* maxDepth digests, the HMAC counted as the first.
C26_HmacNormalizesDepth ==
  /\ op = "hmacShaInfinity"
       => ret = Digests(hmacSha256(arg.key, arg.data), Normalized(arg.depth) - 1)
  /\ op = "hmacShaInfinity:loop"
       => ret.i <= maxDepth

\* C27: the root commits to the whole item sequence.  Two merkleTree calls
\* at the same depth on different item sequences, of equal or different
\* length, never return the same root.
C27_RootCommitsToItems ==
  (op = "merkleTree:second" /\ arg.items # prev.arg.items)
    => ret.root # prev.ret.root

\* merkleTree has returned the tree of a non-empty item sequence.
TreeBuilt ==
  /\ op \in {"merkleTree", "merkleTree:second"}
  /\ arg.items # null
  /\ arg.items # <<>>

\* C28: merkleTree returns for every non-empty item sequence, and then the
\* first level holds the depth-fold digest of each item in order, every
\* later level is strictly shorter than the one before it, the last level
\* has exactly one element, which is the root, and itemCount is the number
\* of items; a single item gives one level and the digest of the item as
\* the root.
C28_TreeShape ==
  LET text(item) == IF IsString(item) THEN item ELSE toString(item)
      levels     == ret.levels
  IN  TreeBuilt
        => /\ Len(levels) >= 1
           /\ Len(levels[1]) = Len(arg.items)
           /\ \A k \in 1..Len(arg.items) :
                levels[1][k] = Digests(text(arg.items[k]), Normalized(arg.depth))
           /\ ret.leaves = levels[1]
           /\ \A l \in 2..Len(levels) : Len(levels[l]) < Len(levels[l - 1])
           /\ Len(levels[Len(levels)]) = 1
           /\ ret.root = levels[Len(levels)][1]
           /\ ret.itemCount = Len(arg.items)
           /\ Len(arg.items) = 1
                => /\ Len(levels) = 1
                   /\ ret.root = Digests(text(arg.items[1]), Normalized(arg.depth))

\* Three items hashed at depth 2: three levels, of three, two and one hash.
C28_Witness ==
  /\ TreeBuilt
  /\ arg.depth = 2
  /\ Len(arg.items) = 3
  /\ Len(ret.levels) = 3
  /\ Len(ret.levels[2]) = 2
  /\ ret.itemCount = 3

\* C29: the depth recorded in a versioned hash is the depth applied.  For
\* every input x and depth d, parseVersionedHash(versionedHash(x, d)) yields
\* a depth n and a digest that is x digested exactly n times, also for d
\* below 1 and above maxDepth.
C29_RecordedDepthApplied ==
  LET text(input) == IF IsString(input) THEN input ELSE toString(input)
  IN  (op = "parseVersionedHash" /\ prev.op = "versionedHash")
        => /\ ~Thrown(ret)
           /\ ret.hash = Digests(text(prev.arg.input), ret.depth)

\* C30: every response of the fetch handler carries every security header
\* with its value, whatever the method and the path: the OPTIONS preflight,
\* the health checks, every /api/ route with the 404 of the unknown ones,
\* and the HTML fallback.
C30_SecurityHeaders ==
  op = "fetch"
    => \A name \in DOMAIN securityHeaders :
         /\ name \in DOMAIN ret.headers
         /\ ret.headers[name] = securityHeaders[name]

====
